---- MODULE Spec2Model ----
(***************************************************************************)
(* Neural style transfer script src/src/style_transfer/train.py as a state *)
(* machine.  The script runs top to bottom: load the content and the style *)
(* image, extract their features with the frozen VGG19, take the style     *)
(* Gram matrices, clone the content into the target, run the Adam loop,    *)
(* save the target.                                                        *)
(*                                                                         *)
(* Numbers.  Tensors hold floats in the code; here they hold integers in   *)
(* fixed point (resolution 1), and a float division is an integer          *)
(* division.  A tensor is data[c][y][x] with its shape <<1, C, H, W>>.     *)
(* The library calls (torchvision Resize, the VGG19 modules, autograd,     *)
(* Adam) are given by what they do on these small tensors.                 *)
(***************************************************************************)
EXTENDS Integers, Sequences, FiniteSets, TLC

\* ------------------------------------------------------------- bounds
\* Largest width and height of an original image offered to load_image.
MaxDim == 4
\* Pixel values of the target are kept in -MaxPix .. MaxPix.
MaxPix == 3
\* Entries of the feature maps offered to gram_matrix are in -GramVal .. GramVal.
GramVal == 1

\* ------------------------------------------------- program constants
\* def load_image(img_path, max_size=400, shape=None)
DefaultMaxSize == 400
\* show_every = 200
show_every == 200
\* steps = 2001
steps == 2001
\* style_weight = 1e6
DefaultStyleWeight == 1000000
\* content_weight = 1
DefaultContentWeight == 1
\* RGB after convert('RGB') and [:3,:,:]
RGB == 3

\* ------------------------------------------------------------ helpers
Max2(a, b) == IF a >= b THEN a ELSE b
Min2(a, b) == IF a <= b THEN a ELSE b
Abs(a) == IF a >= 0 THEN a ELSE -a
Sign(a) == IF a > 0 THEN 1 ELSE IF a < 0 THEN -1 ELSE 0
Clip(a, lo, hi) == IF a < lo THEN lo ELSE IF a > hi THEN hi ELSE a

\* range(0, steps+1) starts at this index.
RangeStartOne == 0 + 1
RangeStart == 0

\* A function on 1..n written out as the sequence of its values.
Seq1(f) == f \o <<>>

\* The matrix / the data with the given entries, written out.
Build2(R, K, F(_, _)) ==
    Seq1([r \in 1..R |-> Seq1([k \in 1..K |-> F(r, k)])])
Build3(C, H, W, F(_, _, _)) ==
    Seq1([c \in 1..C |-> Seq1([y \in 1..H |-> Seq1([x \in 1..W |-> F(c, y, x)])])])

\* Sum of a sequence of integers.
RECURSIVE SumUpTo(_, _)
SumUpTo(s, n) == IF n = 0 THEN 0 ELSE SumUpTo(s, n - 1) + s[n]
SumSeq(s) == SumUpTo(s, Len(s))

\* Sum of all entries of data[c][y][x] / of a matrix m[i][j].
SumMat(m) == SumSeq(Seq1([i \in 1..Len(m) |-> SumSeq(m[i])]))
SumData(d) == SumSeq(Seq1([c \in 1..Len(d) |-> SumMat(d[c])]))

\* The tensor with no storage (a name not yet bound).
NoTensor == [shape |-> <<0, 0, 0, 0>>, ref |-> 0]

\* ---------------------------------------------------------- load_image
\* An image source: img_path with what lies behind it.  http: "http" in
\* img_path; ok: the source can be fetched and decoded; w, h: image.size;
\* seed: which picture it is.
\* A pixel of the decoded, resized, ToTensor'ed and Normalize'd image.
DecodedPixel(img, c, y, x) == ((img.seed * (c + 1) + 2 * y + x + c) % 5) - 2

\* The slip of swallowing the exception and going on.
ImageOpenNeverRaises(img) == FALSE

\* requests.get + Image.open / Image.open: either raises when the source
\* cannot be fetched or decoded.  TRUE: an exception leaves load_image.
ImageOpenRaises(img) ==
    IF img.http THEN ~img.ok ELSE ~img.ok

\* transforms.Resize(size) on an image of size (w, h): the output <<h, w>>.
\* size of length 1 (an int): the SMALLER edge becomes size, the other edge
\* int(size * long / short).  size of length 2: exactly (h, w) = size.
Resize(w, h, size) ==
    IF Len(size) = 2
    THEN <<size[1], size[2]>>
    ELSE LET short == Min2(w, h)
             long == Max2(w, h)
             new_short == size[1]
             new_long == (size[1] * long) \div short
         IN  IF w <= h THEN <<new_long, new_short>> ELSE <<new_short, new_long>>

\* The slip of resizing by max_size whatever shape says.
load_image_ignoring_shape(img, max_size_, shape) ==
    LET size == IF Max2(img.w, img.h) > max_size_
                THEN <<max_size_>>
                ELSE <<Max2(img.w, img.h)>>
        hw == Resize(img.w, img.h, size)
    IN  [shape |-> <<1, RGB, hw[1], hw[2]>>,
         data |-> Build3(RGB, hw[1], hw[2], LAMBDA c, y, x : DecodedPixel(img, c, y, x))]

\* load_image past the open: shape = <<>> is shape=None.
\* Returns the tensor in_transform(image)[:3,:,:].unsqueeze(0).
load_image(img, max_size, shape) ==
    LET size0 == IF Max2(img.w, img.h) > max_size
                 THEN <<max_size>>
                 ELSE <<Max2(img.w, img.h)>>
        size == IF shape # <<>> THEN shape ELSE size0
        hw == Resize(img.w, img.h, size)
    IN  [shape |-> <<1, RGB, hw[1], hw[2]>>,
         data |-> Build3(RGB, hw[1], hw[2], LAMBDA c, y, x : DecodedPixel(img, c, y, x))]

\* content.shape[-2:]
LastTwo(shape) == <<shape[3], shape[4]>>

\* ---------------------------------------------- vgg19(...).features
\* model._modules, in order: the names "0" .. "36".
ModuleNames ==
    << "0", "1", "2", "3", "4", "5", "6", "7", "8", "9",
       "10", "11", "12", "13", "14", "15", "16", "17", "18", "19",
       "20", "21", "22", "23", "24", "25", "26", "27", "28", "29",
       "30", "31", "32", "33", "34", "35", "36" >>
ConvNames ==
    { "0", "2", "5", "7", "10", "12", "14", "16",
      "19", "21", "23", "25", "28", "30", "32", "34" }
PoolNames == { "4", "9", "18", "27", "36" }
ReluNames == { ModuleNames[k] : k \in 1..Len(ModuleNames) } \ (ConvNames \cup PoolNames)

\* A convolution, reduced to its mixing of channels: kernel[o][i] is the
\* weight of input channel i in output channel o, the same at every pixel.
Conv2d(kernel, x) ==
    Build3(Len(kernel), Len(x[1]), Len(x[1][1]), LAMBDA o, y, xx :
        SumSeq(Seq1([i \in 1..Len(x) |-> kernel[o][i] * x[i][y][xx]])))

ReLU(x) ==
    Build3(Len(x), Len(x[1]), Len(x[1][1]), LAMBDA c, y, xx : Max2(0, x[c][y][xx]))

\* MaxPool2d on maps this small: the map itself.
MaxPool2d(x) == x

\* layer(x) for the module called name of model.
ApplyModule(model, name, x) ==
    IF name \in ConvNames THEN Conv2d(model[name].weight, x)
    ELSE IF name \in PoolNames THEN MaxPool2d(x)
    ELSE ReLU(x)

\* The default layers of get_features.
DefaultLayers ==
    ("0" :> "conv1_1") @@ ("5" :> "conv2_1") @@ ("10" :> "conv3_1") @@
    ("19" :> "conv4_1") @@ ("21" :> "conv4_2") @@ ("28" :> "conv5_1")

ShapeOfData(x) == <<1, Len(x), Len(x[1]), Len(x[1][1])>>

\* get_features: the loop over model._modules from the k-th module on, x the
\* running activation, features the dictionary so far.
RECURSIVE get_features_from(_, _, _, _, _)
get_features_from(k, x, features, model, layers) ==
    IF k > Len(ModuleNames)
    THEN features
    ELSE LET name == ModuleNames[k]
             out == ApplyModule(model, name, x)
         IN  IF Len(out) = 0    \* never: out is worked out before the next module
             THEN features
             ELSE get_features_from(k + 1, out,
                      IF name \in DOMAIN layers
                      THEN (layers[name] :> [shape |-> ShapeOfData(out), data |-> out])
                           @@ features
                      ELSE features,
                      model, layers)

\* get_features(image, model) with layers=None; image is the tensor's data.
get_features(image, model) ==
    get_features_from(1, image, <<>>, model, DefaultLayers)

\* ---------------------------------------------------------- gram_matrix
\* tensor.view(rows, cols) of a contiguous (1, d, h, w) tensor: entry (r, k)
\* is the element at offset (r - 1) * cols + (k - 1) of the flat storage.
FlatAt(t, off) ==
    LET h == t.shape[3]
        w == t.shape[4]
    IN  t.data[(off \div (h * w)) + 1][((off % (h * w)) \div w) + 1][(off % w) + 1]

View(t, rows, cols) ==
    Build2(rows, cols, LAMBDA r, k : FlatAt(t, (r - 1) * cols + (k - 1)))

\* m.t()
Transpose(m) == Build2(Len(m[1]), Len(m), LAMBDA k, r : m[r][k])

\* torch.mm(a, b)
mm(a, b) ==
    Build2(Len(a), Len(b[1]), LAMBDA i, j :
        SumSeq(Seq1([k \in 1..Len(b) |-> a[i][k] * b[k][j]])))

\* The classic slip: view(h * w, d) taken for the transpose.
gram_matrix_view_for_t(tensor) ==
    LET d == tensor.shape[2]
        h == tensor.shape[3]
        w == tensor.shape[4]
    IN  mm(View(tensor, d, h * w), View(tensor, h * w, d))

gram_matrix(tensor) ==
    LET d == tensor.shape[2]
        h == tensor.shape[3]
        w == tensor.shape[4]
        viewed == View(tensor, d, h * w)
    IN  mm(viewed, Transpose(viewed))

\* ------------------------------------------------------------- losses
\* Elementwise operations on data[c][y][x].
Map2(F(_, _), a, b) ==
    Build3(Len(a), Len(a[1]), Len(a[1][1]), LAMBDA c, y, x : F(a[c][y][x], b[c][y][x]))
SqDiff(u, v) == (u - v) * (u - v)
Plus(u, v) == u + v
NumelData(a) == Len(a) * Len(a[1]) * Len(a[1][1])

\* torch.mean((a - b)**2) of two feature maps.
MeanSqData(a, b) == SumData(Map2(SqDiff, a, b)) \div NumelData(a)

\* torch.mean((a - b)**2) of two matrices.
MeanSqMat(a, b) ==
    SumMat(Build2(Len(a), Len(a[1]), LAMBDA i, j : SqDiff(a[i][j], b[i][j])))
        \div (Len(a) * Len(a[1]))

\* The keys of style_weights in the order of the dictionary.
StyleLayerOrder == << "conv1_1", "conv2_1", "conv3_1", "conv4_1", "conv5_1" >>

\* content_loss = torch.mean((target_features['conv4_2'] - content_features['conv4_2'])**2)
ContentLoss(tf, cf) == MeanSqData(tf["conv4_2"].data, cf["conv4_2"].data)

\* layer_style_loss / (d * h * w) of one layer; weights[layer] is in tenths.
LayerStyleTerm(layer, tf, grams, weights) ==
    LET target_feature == tf[layer]
        target_gram == gram_matrix(target_feature)
        d == target_feature.shape[2]
        h == target_feature.shape[3]
        w == target_feature.shape[4]
        style_gram == grams[layer]
        layer_style_loss == (weights[layer] * MeanSqMat(target_gram, style_gram)) \div 10
    IN  layer_style_loss \div (d * h * w)

\* style_loss after the loop over style_weights.
StyleLoss(tf, grams, weights) ==
    SumSeq(Seq1([k \in 1..Len(StyleLayerOrder) |->
        IF StyleLayerOrder[k] \in DOMAIN weights
        THEN LayerStyleTerm(StyleLayerOrder[k], tf, grams, weights)
        ELSE 0]))

\* The slip of leaving style_weight out of the sum.
TotalLossUnweighted(cw, cl, sw, sl) == cw * cl + sl

\* total_loss = content_weight * content_loss + style_weight * style_loss
TotalLoss(cw, cl, sw, sl) == cw * cl + sw * sl

\* ------------------------------------------------- total_loss.backward()
\* The activations of a forward pass: acts[1] the image, acts[k + 1] the
\* output of the k-th module.
RECURSIVE ActivationsFrom(_, _, _)
ActivationsFrom(k, model, acts) ==
    IF k > Len(ModuleNames)
    THEN acts
    ELSE LET out == ApplyModule(model, ModuleNames[k], acts[k])
         IN  IF Len(out) = 0    \* never: out is worked out before the next module
             THEN acts
             ELSE ActivationsFrom(k + 1, model, Append(acts, out))

ZeroLike(x) ==
    Build3(Len(x), Len(x[1]), Len(x[1][1]), LAMBDA c, y, xx : 0)

\* d total_loss / d target_features['conv4_2']
ContentGrad(cw, t, c) ==
    Build3(Len(t), Len(t[1]), Len(t[1][1]), LAMBDA ch, y, x :
        (cw * 2 * (t[ch][y][x] - c[ch][y][x])) \div NumelData(t))

\* d total_loss / d target_features[layer] of a style layer:
\* style_weight * weight * 4 (G - S) X / (numel(G) * d * h * w), X the view.
StyleGrad(sw, weight, feature, style_gram) ==
    LET d == feature.shape[2]
        h == feature.shape[3]
        w == feature.shape[4]
        viewed == View(feature, d, h * w)
        target_gram == mm(viewed, Transpose(viewed))
        diff == Build2(d, d, LAMBDA i, j : target_gram[i][j] - style_gram[i][j])
        prod == mm(diff, viewed)
    IN  Build3(d, h, w, LAMBDA c, y, x :
            sw * ((weight * 4 * prod[c][(y - 1) * w + x]) \div (10 * d * d * d * h * w)))

\* The gradient that reaches a captured feature map directly from the loss.
LossGrad(fname, tf, cf, grams, weights, cw, sw) ==
    IF fname = "conv4_2"
    THEN ContentGrad(cw, tf[fname].data, cf[fname].data)
    ELSE IF fname \in DOMAIN weights
    THEN StyleGrad(sw, weights[fname], tf[fname], grams[fname])
    ELSE ZeroLike(tf[fname].data)

\* The backward pass of one module: from the gradient of its output to the
\* gradient of its input x.  No module parameter requires a gradient.
ModuleBackward(model, name, x, g) ==
    IF name \in ConvNames THEN Conv2d(Transpose(model[name].weight), g)
    ELSE IF name \in PoolNames THEN g
    ELSE Build3(Len(x), Len(x[1]), Len(x[1][1]), LAMBDA c, y, xx :
             IF x[c][y][xx] > 0 THEN g[c][y][xx] ELSE 0)

\* Backward through modules k, k-1, ..., 1; later is the gradient that
\* reaches the output of module k from the modules after it.
RECURSIVE BackwardFrom(_, _, _, _, _, _, _, _, _)
BackwardFrom(k, later, acts, model, tf, cf, grams, weights, cwsw) ==
    IF k = 0
    THEN later
    ELSE LET name == ModuleNames[k]
             g == IF name \in DOMAIN DefaultLayers
                  THEN Map2(Plus, later,
                            LossGrad(DefaultLayers[name], tf, cf, grams, weights,
                                     cwsw[1], cwsw[2]))
                  ELSE later
             before == ModuleBackward(model, name, acts[k], g)
         IN  IF Len(before) = 0    \* never: before is worked out first
             THEN later
             ELSE BackwardFrom(k - 1, before, acts, model, tf, cf, grams, weights, cwsw)

\* The gradient of total_loss with respect to the target image.
TargetGradient(image, model, tf, cf, grams, weights, cw, sw) ==
    LET acts == ActivationsFrom(1, model, <<image>>)
    IN  BackwardFrom(Len(ModuleNames), ZeroLike(acts[Len(acts)]), acts, model,
                     tf, cf, grams, weights, <<cw, sw>>)

\* ------------------------------------------------------ optimizer.step()
\* exp_avg of Adam with beta1 = 0.9.
AdamExpAvg(exp_avg, grad) ==
    Build3(Len(grad), Len(grad[1]), Len(grad[1][1]), LAMBDA c, y, x :
        exp_avg[c][y][x] + ((grad[c][y][x] - exp_avg[c][y][x]) \div 10))

\* The parameter after one step: one unit (lr) against the sign of the
\* bias-corrected exp_avg, exp_avg_sq only scaling the length; kept in range.
AdamUpdate(param, exp_avg) ==
    Build3(Len(param), Len(param[1]), Len(param[1][1]), LAMBDA c, y, x :
        Clip(param[c][y][x] - Sign(exp_avg[c][y][x]), -MaxPix, MaxPix))

\* ------------------------------------------------------------ im_convert
\* The (h, w, 3) image of a (1, 3, h, w) tensor's data, in thousandths:
\* transpose(1,2,0), * std + mean, clip(0, 1).
ImageStd == <<229, 224, 225>>
ImageMean == <<485, 456, 406>>
im_convert(data) ==
    Build3(Len(data[1]), Len(data[1][1]), Len(data), LAMBDA y, x, c :
        Clip(data[c][y][x] * ImageStd[c] + ImageMean[c], 0, 1000))

\* ------------------------------------------------------------- inputs
\* Kernels of the frozen network.
Ident2 == << <<1, 0>>, <<0, 1>> >>
Swap2 == << <<0, 1>>, <<1, 0>> >>
Diff2 == << <<1, -1>>, <<0, 1>> >>
FirstA == << <<1, 0, 0>>, <<0, -1, 0>> >>
FirstB == << <<0, 0, 1>>, <<-1, 0, 0>> >>

\* vgg after lines 44-48: every parameter with requires_grad False.
Net(first, swaps, diffs) ==
    [n \in ConvNames |->
        [weight |-> IF n = "0" THEN first
                    ELSE IF n \in swaps THEN Swap2
                    ELSE IF n \in diffs THEN Diff2
                    ELSE Ident2,
         requires_grad |-> FALSE]]
NetA == Net(FirstA, {"5", "21"}, {})
NetB == Net(FirstB, {"2", "10", "28"}, {"19"})

\* style_weights, in tenths.
DefaultStyleWeights ==
    [conv1_1 |-> 10, conv2_1 |-> 8, conv3_1 |-> 5, conv4_1 |-> 3, conv5_1 |-> 1]

Source(http, ok, w, h, seed) ==
    [http |-> http, ok |-> ok, w |-> w, h |-> h, seed |-> seed]

\* The runs of the whole script that are explored: pictures, weights, network;
\* and the runs in which a picture cannot be opened.
TrainInputs ==
    { [content_src |-> Source(FALSE, TRUE, 2, 2, 1), style_src |-> Source(TRUE, TRUE, 3, 2, 3),
       max_size |-> DefaultMaxSize,
       weights |-> <<DefaultContentWeight, DefaultStyleWeight>>, net |-> NetA],
      [content_src |-> Source(FALSE, TRUE, 2, 2, 2), style_src |-> Source(FALSE, TRUE, 1, 3, 4),
       max_size |-> DefaultMaxSize,
       weights |-> <<2, DefaultStyleWeight>>, net |-> NetB],
      [content_src |-> Source(FALSE, TRUE, 1, 1, 1), style_src |-> Source(FALSE, TRUE, 2, 2, 2),
       max_size |-> DefaultMaxSize,
       weights |-> <<DefaultContentWeight, 0>>, net |-> NetB] }
    \cup
    { [content_src |-> Source(ht, oks[1], 2, 2, 1),
       style_src |-> Source(ht, oks[2], 3, 2, 3),
       max_size |-> DefaultMaxSize,
       weights |-> <<DefaultContentWeight, DefaultStyleWeight>>, net |-> NetA] :
         ht \in BOOLEAN, oks \in { <<FALSE, TRUE>>, <<TRUE, FALSE>>, <<FALSE, FALSE>> } }

\* The calls of load_image that are explored: every original size up to
\* MaxDim, every max_size up to MaxDim and the default.
LoadInputs ==
    { [content_src |-> Source(FALSE, oks[1], cs[1], cs[2], 1),
       style_src |-> Source(TRUE, oks[2], ss[1], ss[2], 3),
       max_size |-> ms,
       weights |-> <<DefaultContentWeight, DefaultStyleWeight>>, net |-> NetA] :
         cs \in (1..MaxDim) \X (1..MaxDim), ss \in (1..MaxDim) \X (1..MaxDim),
         ms \in (1..MaxDim) \cup {DefaultMaxSize},
         oks \in { <<TRUE, TRUE>>, <<TRUE, FALSE>>, <<FALSE, TRUE>> } }

\* -------------------------------------------------------------- state
VARIABLES
    pc,               \* the statement the script is at
    content_src,      \* what 'images/pisa.jpeg' holds
    style_src,        \* what 'images/ship_at_sea.jpeg' holds
    max_size,         \* load_image's max_size
    vgg,              \* the modules' parameters
    storage,          \* the tensor storages; a tensor is a shape and a ref
    content, style, target,
    target_grad,      \* target.grad: none, or data
    writer,           \* the SummaryWriter and what it was sent
    content_features, style_features, style_grams, target_features,
    style_weights, content_weight, style_weight,
    optimizer,        \* params (refs) and Adam's state
    range_it,         \* the next index of range(0, steps+1)
    ii,
    content_loss, style_loss, total_loss,
    stdout,           \* the lines printed
    figure,           \* plt's current figure
    saved,            \* the files written by imsave
    prov              \* history: which target a value was computed from

inputs == <<content_src, style_src, max_size>>
config == <<style_weights, content_weight, style_weight>>
tensors == <<storage, content, style, target, target_grad>>
feats == <<content_features, style_features, style_grams, target_features>>
losses == <<content_loss, style_loss, total_loss>>
sinks == <<writer, stdout, figure, saved>>
loopv == <<optimizer, range_it, ii>>
vars == <<pc, inputs, vgg, config, tensors, feats, losses, sinks, loopv, prov>>

NoGrad == [none |-> TRUE, data |-> <<>>]
NoWriter == [created |-> FALSE, scalars |-> 0, scalar_step |-> -1, scalar_value |-> 0,
             figure_steps |-> {}]
NoProv == [features_of |-> -1, loss_of |-> -1, loss_ii |-> -1, grad_of |-> {},
           stepped_with |-> {}, shown |-> -1]

\* The state in which every variable has the value r gives it.
StateIs(r) ==
    /\ pc = r.pc
    /\ content_src = r.content_src
    /\ style_src = r.style_src
    /\ max_size = r.max_size
    /\ vgg = r.vgg
    /\ storage = r.storage
    /\ content = r.content
    /\ style = r.style
    /\ target = r.target
    /\ target_grad = r.target_grad
    /\ writer = r.writer
    /\ content_features = r.content_features
    /\ style_features = r.style_features
    /\ style_grams = r.style_grams
    /\ target_features = r.target_features
    /\ style_weights = r.style_weights
    /\ content_weight = r.content_weight
    /\ style_weight = r.style_weight
    /\ optimizer = r.optimizer
    /\ range_it = r.range_it
    /\ ii = r.ii
    /\ content_loss = r.content_loss
    /\ style_loss = r.style_loss
    /\ total_loss = r.total_loss
    /\ stdout = r.stdout
    /\ figure = r.figure
    /\ saved = r.saved
    /\ prov = r.prov

\* The script before line 56, vgg loaded and frozen (lines 44-48).
Start(inp) ==
    [pc |-> "load_content",
     content_src |-> inp.content_src, style_src |-> inp.style_src,
     max_size |-> inp.max_size, vgg |-> inp.net,
     storage |-> <<>>, content |-> NoTensor, style |-> NoTensor, target |-> NoTensor,
     target_grad |-> NoGrad, writer |-> NoWriter,
     content_features |-> <<>>, style_features |-> <<>>, style_grams |-> <<>>,
     target_features |-> <<>>,
     style_weights |-> DefaultStyleWeights,
     content_weight |-> inp.weights[1], style_weight |-> inp.weights[2],
     optimizer |-> [created |-> FALSE, params |-> <<>>, step |-> 0, exp_avg |-> <<>>],
     range_it |-> RangeStart, ii |-> -1,
     content_loss |-> 0, style_loss |-> 0, total_loss |-> 0,
     stdout |-> [lines |-> 0, last |-> 0], figure |-> <<>>,
     saved |-> [count |-> 0, image |-> <<>>],
     prov |-> NoProv]

Init == \E inp \in TrainInputs : StateIs(Start(inp))
InitLoad == \E inp \in LoadInputs : StateIs(Start(inp))

\* ------------------------------------------------- lines 56-59: loading
\* content = load_image('images/pisa.jpeg').to(device)
LoadContent ==
    /\ pc = "load_content"
    /\ IF ImageOpenRaises(content_src)
       THEN /\ pc' = "aborted"
            /\ UNCHANGED <<storage, content>>
       ELSE LET t == load_image(content_src, max_size, <<>>)
            IN  /\ storage' = Append(storage, t.data)
                /\ content' = [shape |-> t.shape, ref |-> Len(storage) + 1]
                /\ pc' = "load_style"
    /\ UNCHANGED <<inputs, vgg, config, style, target, target_grad, feats, losses,
                   sinks, loopv, prov>>

\* style = load_image('images/ship_at_sea.jpeg', shape=content.shape[-2:]).to(device)
LoadStyle ==
    /\ pc = "load_style"
    /\ IF ImageOpenRaises(style_src)
       THEN /\ pc' = "aborted"
            /\ UNCHANGED <<storage, style>>
       ELSE LET t == load_image(style_src, max_size, LastTwo(content.shape))
            IN  /\ storage' = Append(storage, t.data)
                /\ style' = [shape |-> t.shape, ref |-> Len(storage) + 1]
                /\ pc' = "writer"
    /\ UNCHANGED <<inputs, vgg, config, content, target, target_grad, feats, losses,
                   sinks, loopv, prov>>

\* writer = SummaryWriter(...)
MakeWriter ==
    /\ pc = "writer"
    /\ writer' = [writer EXCEPT !.created = TRUE]
    /\ pc' = "content_features"
    /\ UNCHANGED <<inputs, vgg, config, tensors, feats, losses, stdout, figure, saved,
                   loopv, prov>>

\* ----------------------------------------- lines 117-126: the fixed parts
\* content_features = get_features(content, vgg)
ContentFeatures ==
    /\ pc = "content_features"
    /\ content_features' = get_features(storage[content.ref], vgg)
    /\ pc' = "style_features"
    /\ UNCHANGED <<inputs, vgg, config, tensors, style_features, style_grams,
                   target_features, losses, sinks, loopv, prov>>

\* style_features = get_features(style, vgg)
StyleFeatures ==
    /\ pc = "style_features"
    /\ style_features' = get_features(storage[style.ref], vgg)
    /\ pc' = "style_grams"
    /\ UNCHANGED <<inputs, vgg, config, tensors, content_features, style_grams,
                   target_features, losses, sinks, loopv, prov>>

\* style_grams = {layer: gram_matrix(style_features[layer]) for layer in style_features}
StyleGrams ==
    /\ pc = "style_grams"
    /\ style_grams' = [layer \in DOMAIN style_features |->
                          gram_matrix(style_features[layer])]
    /\ pc' = "target"
    /\ UNCHANGED <<inputs, vgg, config, tensors, content_features, style_features,
                   target_features, losses, sinks, loopv, prov>>

\* The slip of leaving .clone() out: the same storage under a second name.
CloneAliased(st, t) == [storage |-> st, tensor |-> t]

\* t.clone(): a new storage with the values of t's.
Clone(st, t) ==
    [storage |-> Append(st, st[t.ref]),
     tensor |-> [shape |-> t.shape, ref |-> Len(st) + 1]]

\* The slip of starting the target from the style image.
TargetSourceStyle == style

\* The tensor the target starts as a copy of.
TargetSource == content

\* target = content.clone().requires_grad_(True).to(device)
MakeTarget ==
    /\ pc = "target"
    /\ LET c == Clone(storage, TargetSource)
       IN  /\ storage' = c.storage
           /\ target' = c.tensor
    /\ target_grad' = NoGrad
    /\ pc' = "optimizer"
    /\ UNCHANGED <<inputs, vgg, config, content, style, feats, losses, sinks, loopv, prov>>

\* optimizer = optim.Adam([target], lr=0.003)
MakeOptimizer ==
    /\ pc = "optimizer"
    /\ optimizer' = [created |-> TRUE, params |-> <<target.ref>>, step |-> 0,
                     exp_avg |-> <<>>]
    /\ pc' = "for"
    /\ UNCHANGED <<inputs, vgg, config, tensors, feats, losses, sinks, range_it, ii, prov>>

\* ------------------------------------------------ lines 148-184: the loop
\* range(0, steps+1) stops before this index.
RangeStop == steps + 1

\* for ii in range(0, steps+1):
ForNext ==
    /\ pc = "for"
    /\ IF range_it < RangeStop
       THEN /\ ii' = range_it
            /\ range_it' = range_it + 1
            /\ pc' = "get_features"
       ELSE /\ pc' = "imsave"
            /\ UNCHANGED <<ii, range_it>>
    /\ UNCHANGED <<inputs, vgg, config, tensors, feats, losses, sinks, optimizer, prov>>

\* target_features = get_features(target, vgg)
TargetFeatures ==
    /\ pc = "get_features"
    /\ target_features' = get_features(storage[target.ref], vgg)
    /\ prov' = [prov EXCEPT !.features_of = optimizer.step]
    /\ pc' = "loss"
    /\ UNCHANGED <<inputs, vgg, config, tensors, content_features, style_features,
                   style_grams, losses, sinks, loopv>>

\* content_loss, style_loss and total_loss of the iteration.
ComputeLoss ==
    /\ pc = "loss"
    /\ LET cl == ContentLoss(target_features, content_features)
           sl == StyleLoss(target_features, style_grams, style_weights)
       IN  /\ content_loss' = cl
           /\ style_loss' = sl
           /\ total_loss' = TotalLoss(content_weight, cl, style_weight, sl)
    /\ prov' = [prov EXCEPT !.loss_of = prov.features_of, !.loss_ii = ii]
    /\ pc' = "add_scalar"
    /\ UNCHANGED <<inputs, vgg, config, tensors, feats, sinks, loopv>>

\* writer.add_scalar("total_loss", total_loss, ii)
AddScalar ==
    /\ pc = "add_scalar"
    /\ writer' = [writer EXCEPT !.scalars = @ + 1, !.scalar_step = ii,
                                !.scalar_value = total_loss]
    /\ pc' = "zero_grad"
    /\ UNCHANGED <<inputs, vgg, config, tensors, feats, losses, stdout, figure, saved,
                   loopv, prov>>

\* The slip of leaving optimizer.zero_grad() out.
ZeroGradLeftOut ==
    /\ pc = "zero_grad"
    /\ pc' = "backward"
    /\ UNCHANGED <<inputs, vgg, config, tensors, feats, losses, sinks, loopv, prov>>

\* optimizer.zero_grad()
ZeroGrad ==
    /\ pc = "zero_grad"
    /\ target_grad' = IF target.ref \in { optimizer.params[k] : k \in DOMAIN optimizer.params }
                      THEN NoGrad
                      ELSE target_grad
    /\ prov' = [prov EXCEPT !.grad_of = {}]
    /\ pc' = "backward"
    /\ UNCHANGED <<inputs, vgg, config, storage, content, style, target, feats, losses,
                   sinks, loopv>>

\* total_loss.backward(): the gradient is added to target.grad.
Backward ==
    /\ pc = "backward"
    /\ LET g == TargetGradient(storage[target.ref], vgg, target_features,
                               content_features, style_grams, style_weights,
                               content_weight, style_weight)
       IN  target_grad' = [none |-> FALSE,
                           data |-> IF target_grad.none THEN g
                                    ELSE Map2(Plus, target_grad.data, g)]
    /\ prov' = [prov EXCEPT !.grad_of = @ \cup {prov.loss_ii}]
    /\ pc' = "step"
    /\ UNCHANGED <<inputs, vgg, config, storage, content, style, target, feats, losses,
                   sinks, loopv>>

\* optimizer.step(): every parameter of the optimizer that has a gradient.
OptimizerStep ==
    /\ pc = "step"
    /\ IF target_grad.none \/ optimizer.params = <<>>
       THEN UNCHANGED <<storage, optimizer>>
       ELSE LET p == optimizer.params[1]
                m0 == IF optimizer.exp_avg = <<>> THEN ZeroLike(storage[p])
                      ELSE optimizer.exp_avg
                m1 == AdamExpAvg(m0, target_grad.data)
            IN  /\ storage' = [storage EXCEPT ![p] = AdamUpdate(storage[p], m1)]
                /\ optimizer' = [optimizer EXCEPT !.step = @ + 1, !.exp_avg = m1]
    /\ prov' = [prov EXCEPT !.stepped_with = prov.grad_of]
    /\ pc' = "show"
    /\ UNCHANGED <<inputs, vgg, config, content, style, target, target_grad, feats,
                   losses, sinks, range_it, ii>>

\* The slip of reporting in every iteration.
ShowDueAlways(i) == TRUE

\* ii % show_every == 0
ShowDue(i) == i % show_every = 0

\* print the loss, show the target, writer.add_figure(..., global_step=ii)
Show ==
    /\ pc = "show"
    /\ IF ShowDue(ii)
       THEN /\ stdout' = [lines |-> stdout.lines + 1, last |-> total_loss]
            /\ figure' = im_convert(storage[target.ref])
            /\ writer' = [writer EXCEPT !.figure_steps = @ \cup {ii}]
            /\ prov' = [prov EXCEPT !.shown = optimizer.step]
       ELSE UNCHANGED <<stdout, figure, writer, prov>>
    /\ pc' = "for"
    /\ UNCHANGED <<inputs, vgg, config, tensors, feats, losses, saved, loopv>>

\* matplotlib.image.imsave("target.png", im_convert(target))
Imsave ==
    /\ pc = "imsave"
    /\ saved' = [count |-> saved.count + 1, image |-> im_convert(storage[target.ref])]
    /\ pc' = "done"
    /\ UNCHANGED <<inputs, vgg, config, tensors, feats, losses, writer, stdout, figure,
                   loopv, prov>>

Next ==
    \/ LoadContent \/ LoadStyle \/ MakeWriter
    \/ ContentFeatures \/ StyleFeatures \/ StyleGrams \/ MakeTarget \/ MakeOptimizer
    \/ ForNext \/ TargetFeatures \/ ComputeLoss \/ AddScalar \/ ZeroGrad \/ Backward
    \/ OptimizerStep \/ Show \/ Imsave

Spec == Init /\ [][Next]_vars

\* The loading of the two images alone, over every size.
NextLoad == LoadContent \/ LoadStyle
SpecLoad == InitLoad /\ [][NextLoad]_vars

\* ------------------------------------- gram_matrix on every small feature map
FeatureNames == { DefaultLayers[n] : n \in DOMAIN DefaultLayers }

\* The script at line 118: both images loaded, the writer made.
Loaded(inp) ==
    LET c == load_image(inp.content_src, inp.max_size, <<>>)
        st == load_image(inp.style_src, inp.max_size, LastTwo(c.shape))
    IN  [Start(inp) EXCEPT
            !.pc = "content_features",
            !.storage = <<c.data, st.data>>,
            !.content = [shape |-> c.shape, ref |-> 1],
            !.style = [shape |-> st.shape, ref |-> 2],
            !.writer = [NoWriter EXCEPT !.created = TRUE]]

\* The script at line 122, with fm as every feature map of the style image.
AtStyleGrams(inp, fm) ==
    LET r == Loaded(inp)
    IN  [r EXCEPT
            !.pc = "style_grams",
            !.content_features = get_features(r.storage[1], inp.net),
            !.style_features = [l \in FeatureNames |-> fm]]

\* The shapes (1, d, h, w) of the feature maps offered to gram_matrix.
GramShapes == { <<1, 2, 1, 2>>, <<1, 2, 2, 1>>, <<1, 3, 1, 1>>, <<1, 1, 2, 1>>, <<1, 1, 1, 2>> }
GramInput ==
    [content_src |-> Source(FALSE, TRUE, 2, 2, 1), style_src |-> Source(TRUE, TRUE, 3, 2, 3),
     max_size |-> DefaultMaxSize,
     weights |-> <<DefaultContentWeight, DefaultStyleWeight>>, net |-> NetA]

InitGram ==
    \E sh \in GramShapes :
        \E d \in [1..sh[2] -> [1..sh[3] -> [1..sh[4] -> (-GramVal)..GramVal]]] :
            StateIs(AtStyleGrams(GramInput,
                [shape |-> sh,
                 data |-> Build3(sh[2], sh[3], sh[4], LAMBDA c, y, x : d[c][y][x])]))

SpecGram == InitGram /\ [][StyleGrams]_vars

\* ---------------------------------- the loss on many targets and weights
\* A target image of the content's size.
TargetPattern(seed, shape) ==
    Build3(shape[2], shape[3], shape[4], LAMBDA c, y, x :
        ((seed * c + y * x + seed) % (2 * MaxPix + 1)) - MaxPix)

\* The script at line 153 in iteration 1, the target holding tdata.
AtLoss(inp, tdata, sweights) ==
    LET r == Loaded(inp)
        cf == get_features(r.storage[1], inp.net)
        sf == get_features(r.storage[2], inp.net)
    IN  [r EXCEPT
            !.pc = "loss",
            !.storage = Append(r.storage, tdata),
            !.target = [shape |-> r.content.shape, ref |-> 3],
            !.content_features = cf,
            !.style_features = sf,
            !.style_grams = [layer \in DOMAIN sf |-> gram_matrix(sf[layer])],
            !.target_features = get_features(tdata, inp.net),
            !.style_weights = sweights,
            !.optimizer = [created |-> TRUE, params |-> <<3>>, step |-> 1,
                           exp_avg |-> ZeroLike(tdata)],
            !.range_it = 2,
            !.ii = 1,
            !.writer = [created |-> TRUE, scalars |-> 1, scalar_step |-> 0,
                        scalar_value |-> 0, figure_steps |-> {0}],
            !.stdout = [lines |-> 1, last |-> 0],
            !.figure = im_convert(r.storage[1]),
            !.prov = [features_of |-> 1, loss_of |-> 0, loss_ii |-> 0, grad_of |-> {0},
                      stepped_with |-> {0}, shown |-> 1]]

LossInputs ==
    { [content_src |-> Source(FALSE, TRUE, 2, 2, sd[1]),
       style_src |-> Source(FALSE, TRUE, 3, 2, sd[2]),
       max_size |-> DefaultMaxSize, weights |-> wt, net |-> nt] :
         sd \in { <<1, 3>>, <<2, 4>> },
         wt \in { <<1, 0>>, <<2, 0>>, <<3, 1>>, <<DefaultContentWeight, DefaultStyleWeight>> },
         nt \in { NetA, NetB } }
LossStyleWeights ==
    { DefaultStyleWeights, [conv1_1 |-> 10, conv3_1 |-> 2], [conv5_1 |-> 7] }

InitLoss ==
    \E inp \in LossInputs : \E seed \in 0..3 : \E sw \in LossStyleWeights :
        StateIs(AtLoss(inp, TargetPattern(seed, <<1, RGB, 2, 2>>), sw))

SpecLoss == InitLoss /\ [][ComputeLoss]_vars

\* ================================================================ claims
\* C2 (as the spec states it): load_image without shape returns a tensor
\* whose larger spatial dimension is min(max_size, original larger dimension).
C2_LargerDimensionIsCapped ==
    content.ref # 0 =>
        Max2(content.shape[3], content.shape[4])
            = Min2(max_size, Max2(content_src.w, content_src.h))

\* C3: load_image with shape (h, w) returns a tensor of shape exactly
\* (1, 3, h, w), whatever the original size and max_size; so the style tensor,
\* loaded with the content's last two dimensions, has the content's shape.
C3_ExplicitShapeIsExact ==
    style.ref # 0 =>
        /\ style.shape = <<1, 3, content.shape[3], content.shape[4]>>
        /\ style.shape = content.shape
        /\ ShapeOfData(storage[style.ref]) = style.shape
        /\ ShapeOfData(storage[content.ref]) = content.shape

\* The style picture alone would have got another shape than the content's.
C3_Witness ==
    /\ style.ref # 0
    /\ load_image(style_src, max_size, <<>>).shape # content.shape
    /\ <<style_src.h, style_src.w>> # <<content_src.h, content_src.w>>
    /\ max_size < Max2(style_src.w, style_src.h)

\* C4: with style_weight = 0 the total loss of an iteration is exactly
\* content_weight * content_loss.
C4_ZeroStyleWeight ==
    (pc = "add_scalar" /\ style_weight = 0) =>
        total_loss = content_weight * content_loss

C4_Witness ==
    /\ pc = "add_scalar"
    /\ style_weight = 0
    /\ content_weight > 1
    /\ content_loss > 0
    /\ style_loss > 0

\* C7: gram_matrix of a (1, C, H, W) feature map is a C x C matrix equal to
\* its transpose.
C7_GramSymmetric ==
    pc = "target" =>
        \A layer \in DOMAIN style_grams :
            LET g == style_grams[layer]
                d == style_features[layer].shape[2]
            IN  /\ Len(g) = d
                /\ \A i \in 1..d : Len(g[i]) = d
                /\ \A i, j \in 1..d : g[i][j] = g[j][i]

\* A map of two or more channels with a non-zero off-diagonal entry.
C7_Witness ==
    /\ pc = "target"
    /\ \E layer \in DOMAIN style_grams :
           /\ style_features[layer].shape[2] >= 2
           /\ style_features[layer].shape[3] * style_features[layer].shape[4] >= 2
           /\ style_grams[layer][1][2] # 0
           /\ style_grams[layer][1][1] # style_grams[layer][2][2]

\* The statements of the loop body, lines 151-184.
LoopBody == { "get_features", "loss", "add_scalar", "zero_grad", "backward", "step", "show" }
AfterLoop == { "imsave", "done" }

\* What holds of the loop's counters in every state.
C1_Counters ==
    /\ pc \in LoopBody => (ii = range_it - 1 /\ ii \in 0..steps)
    /\ pc \in LoopBody \cup {"for"} \cup AfterLoop =>
          /\ optimizer.step = IF pc \in {"get_features", "loss", "add_scalar",
                                         "zero_grad", "backward", "step"}
                              THEN range_it - 1 ELSE range_it
          /\ writer.scalars = IF pc \in {"get_features", "loss", "add_scalar"}
                              THEN range_it - 1 ELSE range_it
          /\ writer.scalars > 0 => writer.scalar_step = writer.scalars - 1
    /\ pc \in AfterLoop =>
          /\ range_it = steps + 1
          /\ range_it = 2002
          /\ ii = steps
          /\ optimizer.step = 2002
          /\ writer.scalars = 2002
    /\ saved.count = (IF pc = "done" THEN 1 ELSE 0)

\* What holds of every step: the index goes up by one at a time, and
\* nothing happens after the export.
C1_Step ==
    /\ pc # "done"
    /\ \/ (ii' = ii /\ range_it' = range_it)
       \/ (pc = "for" /\ ii' = ii + 1 /\ range_it' = range_it + 1)
    /\ saved' # saved => (pc = "imsave" /\ pc' = "done" /\ ii = steps)

\* C1: the loop runs exactly steps + 1 = 2002 iterations, with the indices
\* 0, 1, ..., steps in increasing order, each once, then ends; the target is
\* exported exactly once, and not before the last iteration has finished.
C1_FixedIterationCount == []C1_Counters /\ [][C1_Step]_vars

C1_Witness ==
    /\ pc = "done"
    /\ saved.count = 1
    /\ saved.image = im_convert(storage[target.ref])

\* C5: if the content or the style image cannot be fetched or decoded, the
\* run aborts before the loop: no iteration, no optimizer step, nothing
\* reported, nothing exported.
C5_AbortBeforeLoop ==
    (~content_src.ok \/ ~style_src.ok) =>
        /\ pc \in {"load_content", "load_style", "aborted"}
        /\ range_it = 0
        /\ ii = -1
        /\ ~optimizer.created
        /\ optimizer.step = 0
        /\ target = NoTensor
        /\ writer = NoWriter
        /\ stdout.lines = 0
        /\ figure = <<>>
        /\ saved.count = 0

C5_Witness ==
    /\ pc = "aborted"
    /\ content.ref # 0
    /\ ~style_src.ok

\* C6 (as the spec states it): the loss value and the snapshot are sent to
\* the reporting collaborator only in iterations that are multiples of
\* show_every.
C6_LossAndSnapshotOnlyOnMultiples ==
    /\ writer.scalar_step >= 0 => writer.scalar_step % show_every = 0
    /\ \A s \in writer.figure_steps : s % show_every = 0

\* The last iteration whose report stage is over (-1: none).
LastShown == IF pc \in {"for"} \cup AfterLoop THEN ii ELSE ii - 1

\* C6 (amended): the loss is printed and the snapshot is sent to the writer in
\* iteration i iff i is a multiple of show_every (0, 200, ..., 2000: 11
\* reports); the scalar total_loss is sent to the writer in every iteration.
C6_SnapshotOnMultiplesScalarAlways ==
    pc \in LoopBody \cup {"for"} \cup AfterLoop =>
        /\ writer.figure_steps =
              IF LastShown < 0 THEN {}
              ELSE { show_every * k : k \in 0..(LastShown \div show_every) }
        /\ stdout.lines = Cardinality(writer.figure_steps)
        /\ writer.scalars = IF pc \in {"get_features", "loss", "add_scalar"}
                            THEN ii ELSE ii + 1
        /\ writer.scalars > 0 => writer.scalar_step = writer.scalars - 1
        /\ pc = "done" =>
              /\ writer.figure_steps = { 200 * k : k \in 0..10 }
              /\ Cardinality(writer.figure_steps) = 11
              /\ stdout.lines = 11
              /\ writer.scalars = 2002

C6_Witness ==
    /\ pc = "for"
    /\ ii = 201
    /\ writer.figure_steps = {0, 200}
    /\ writer.scalars = 202

\* C8: within an iteration the order is features, loss, zero_grad, backward,
\* step, report, and an iteration starts after the one before has ended:
\* the loss is that of the features of the target as the last step left it,
\* the gradient the step uses is the gradient of this iteration's loss alone,
\* and a report shows the target after this iteration's step.
C8_OrderWithinIteration ==
    /\ pc = "get_features" =>
          /\ optimizer.step = ii
          /\ ii > 0 => prov.stepped_with = {ii - 1}
    /\ pc = "loss" => (prov.features_of = ii /\ optimizer.step = ii)
    /\ pc \in {"add_scalar", "zero_grad", "backward", "step"} =>
          /\ prov.loss_ii = ii
          /\ prov.loss_of = ii
          /\ optimizer.step = ii
    /\ pc = "backward" => (target_grad.none /\ prov.grad_of = {})
    /\ pc = "step" => (~target_grad.none /\ prov.grad_of = {ii})
    /\ (pc = "show" \/ (pc = "for" /\ ii >= 0)) =>
          /\ prov.stepped_with = {ii}
          /\ optimizer.step = ii + 1
    /\ (pc = "for" /\ ii >= 0 /\ ii % show_every = 0) =>
          /\ prov.shown = ii + 1
          /\ ii \in writer.figure_steps
          /\ figure = im_convert(storage[target.ref])
          /\ stdout.last = total_loss

C8_Witness ==
    /\ pc = "for"
    /\ ii = 200
    /\ prov.shown = 201
    /\ prov.stepped_with = {200}
    /\ storage[target.ref] # storage[content.ref]

\* One step of the loop leaves the fixed parts alone.
C9_FrameStep ==
    pc \in LoopBody \cup {"for"} =>
        /\ content' = content
        /\ style' = style
        /\ storage'[content'.ref] = storage[content.ref]
        /\ storage'[style'.ref] = storage[style.ref]
        /\ content_features' = content_features
        /\ style_grams' = style_grams
        /\ style_weights' = style_weights
        /\ vgg' = vgg

\* C9: across the iterations the content image, the content features, the
\* style Gram matrices, the style weights and the network's parameters keep
\* the values they had when the loop started.
C9_LoopFrame == [][C9_FrameStep]_vars

\* The target has been moved away from the content.
C9_Witness ==
    /\ pc = "show"
    /\ ii >= 1
    /\ optimizer.step = ii + 1
    /\ storage[target.ref] # storage[content.ref]

\* C10: when iteration 0 computes its loss the target equals the content
\* value for value, so its content loss is 0 and its total loss is
\* style_weight * style_loss; the content is a separate copy, which later
\* updates of the target leave alone.
C10_TargetStartsAsContent ==
    /\ (ii = 0 /\ pc \in {"get_features", "loss"}) =>
          /\ storage[target.ref] = storage[content.ref]
          /\ optimizer.step = 0
    /\ (ii = 0 /\ pc \in LoopBody \ {"get_features", "loss"}) =>
          /\ content_loss = 0
          /\ total_loss = style_weight * style_loss
    /\ target.ref # 0 => target.ref # content.ref
    /\ content.ref # 0 =>
          storage[content.ref] = load_image(content_src, max_size, <<>>).data

C10_Witness ==
    /\ ii = 0
    /\ pc = "add_scalar"
    /\ content_loss = 0
    /\ style_loss > 0
    /\ total_loss > 0

====
